---- MODULE Spec2Model ----
(***************************************************************************)
(* Quote normalizer of quote_converter_app.py: _detect_primary_style,      *)
(* normalize_quotes_to_us, sanitize_for_docx and convert_docx_runs_to_us.  *)
(*                                                                         *)
(* A Python str is a sequence of characters; a character is a one-element  *)
(* TLA+ string, except the four curly quotes and the code points that only *)
(* sanitize_for_docx looks at, which have names (the module is ASCII).     *)
(* A Python value that may be None is a record [none, str].                *)
(***************************************************************************)
EXTENDS Integers, Sequences, FiniteSets, TLC

VARIABLES
    text,      \* normalize_quotes_to_us: the argument of the call
    result,    \* normalize_quotes_to_us: the returned value
    style,     \* the label _detect_primary_style gave ("" before the vote)
    pc,        \* "call" before the function runs, "done" after it returned
    calls,     \* interleaved calls: call id -> its frame (locals and position)
    doc,       \* convert_docx_runs_to_us: the document, mutated in place
    doc0       \* the document as it was before convert_docx_runs_to_us

vars == <<text, result, style, pc, calls, doc, doc0>>

----------------------------------------------------------------------------
(* Characters *)

LSQUO == "lsquo"    \* U+2018 left single quotation mark
RSQUO == "rsquo"    \* U+2019 right single quotation mark
LDQUO == "ldquo"    \* U+201C left double quotation mark
RDQUO == "rdquo"    \* U+201D right double quotation mark
SQ    == "'"        \* U+0027 straight single quote
DQ    == "\""       \* U+0022 straight double quote
NL    == "\n"
BEL   == "bel"      \* U+0007, an ASCII control character
NONCHAR == "ufffe"  \* U+FFFE, a Unicode noncharacter
SURR  == "ud800"    \* U+D800, a lone surrogate
REPL  == "ufffd"    \* U+FFFD replacement character

CurlyQuotes == {LSQUO, RSQUO, LDQUO, RDQUO}
QuoteChars  == CurlyQuotes \cup {SQ, DQ}

UpperCase == {"A", "C", "D", "E", "L", "N", "O", "P", "S", "T"}
LowerCase == {"a", "c", "d", "e", "i", "k", "l", "m", "n", "o", "p", "r",
              "s", "t", "u", "w"}
Digits    == {"0", "9"}

\* re.IGNORECASE compares case-folded characters.
Lower(c) ==
    CASE c = "A" -> "a" [] c = "C" -> "c" [] c = "D" -> "d" [] c = "E" -> "e"
      [] c = "L" -> "l" [] c = "N" -> "n" [] c = "O" -> "o" [] c = "P" -> "p"
      [] c = "S" -> "s" [] c = "T" -> "t" [] OTHER -> c

\* \w of a str pattern: letters, digits and the underscore.
IsWord(c)  == c \in UpperCase \cup LowerCase \cup Digits \cup {"_"}
\* \d
IsDigit(c) == c \in Digits
\* \s
IsSpace(c) == c \in {" ", NL, "\t", "\r"}
\* the class [\s(\[{<] of the two opening-quote patterns
IsOpenContext(c) == IsSpace(c) \/ c \in {"(", "[", "{", "<"}

----------------------------------------------------------------------------
(* Python values: None or a str *)

PyNone   == [none |-> TRUE, str |-> <<>>]
PyStr(s) == [none |-> FALSE, str |-> s]
\* `not text`
Falsy(v) == v.none \/ v.str = <<>>

----------------------------------------------------------------------------
(* str and re primitives *)

\* pat occurs in s starting at index i
MatchAt(s, i, pat) ==
    /\ i >= 1
    /\ i + Len(pat) - 1 <= Len(s)
    /\ \A k \in 1..Len(pat) : s[i + k - 1] = pat[k]

\* the same under re.IGNORECASE
MatchAtIC(s, i, pat) ==
    /\ i >= 1
    /\ i + Len(pat) - 1 <= Len(s)
    /\ \A k \in 1..Len(pat) : Lower(s[i + k - 1]) = Lower(pat[k])

\* (?<=\w) just before index i, and \w at index i
WordBefore(s, i) == i > 1 /\ i - 1 <= Len(s) /\ IsWord(s[i - 1])
WordAt(s, i)     == i >= 1 /\ i <= Len(s) /\ IsWord(s[i])
\* \b between index i-1 and index i
Boundary(s, i)   == WordBefore(s, i) # WordAt(s, i)

\* Left-to-right, non-overlapping substitution from index i on: at the first
\* index from the scan position where hits holds, n characters are replaced by
\* rep and the scan resumes after them; what lies between is copied.
RECURSIVE Splice(_, _, _, _, _)
Splice(s, hits, n, rep, i) ==
    LET later == {j \in i..Len(s) : hits[j]}
    IN  IF later = {} THEN SubSeq(s, i, Len(s))
        ELSE LET j == CHOOSE j \in later : \A k \in later : j <= k
             IN  SubSeq(s, i, j - 1) \o rep \o Splice(s, hits, n, rep, j + n)

\* str.replace(old, new)
Replace(s, old, new) ==
    Splice(s, [i \in 1..Len(s) |-> MatchAt(s, i, old)], Len(old), new, 1)

\* str.count(c) for a one-character c
Count(s, c) == Cardinality({i \in 1..Len(s) : s[i] = c})

\* str.split("\n"): the lines, at least one
RECURSIVE SplitFrom(_, _, _)
SplitFrom(s, i, cur) ==
    IF i > Len(s) THEN <<cur>>
    ELSE IF s[i] = NL THEN <<cur>> \o SplitFrom(s, i + 1, <<>>)
    ELSE SplitFrom(s, i + 1, Append(cur, s[i]))

Split(s) == SplitFrom(s, 1, <<>>)

\* "\n".join(lines)
RECURSIVE Join(_)
Join(lines) ==
    IF Len(lines) = 0 THEN <<>>
    ELSE IF Len(lines) = 1 THEN lines[1]
    ELSE lines[1] \o <<NL>> \o Join(Tail(lines))

----------------------------------------------------------------------------
(* _detect_primary_style *)

\* len(re.findall(r'(^|[\s(\[{<])q', text)): the scan tries, at each position,
\* the start-of-string alternative and then the one-character context.
RECURSIVE CountOpens(_, _, _)
CountOpens(s, q, i) ==
    IF i > Len(s) THEN 0
    ELSE IF i = 1 /\ s[1] = q THEN 1 + CountOpens(s, q, 2)
    ELSE IF IsOpenContext(s[i]) /\ i + 1 <= Len(s) /\ s[i + 1] = q
         THEN 1 + CountOpens(s, q, i + 2)
    ELSE CountOpens(s, q, i + 1)

singles_open(s)   == CountOpens(s, LSQUO, 1)
doubles_open(s)   == CountOpens(s, LDQUO, 1)
singles_total(s)  == Count(s, LSQUO) + Count(s, RSQUO)
doubles_total(s)  == Count(s, LDQUO) + Count(s, RDQUO)

\* the US rules tried before the first UK rule
StyleRule_USFirst(so, do, st, dt) ==
    IF do * 10 >= so * 12 /\ do >= 4 THEN "US"
    ELSE IF dt * 10 > st * 12 /\ do >= 2 THEN "US"
    ELSE IF so * 10 >= do * 15 /\ so >= 4 THEN "UK"
    ELSE IF st * 10 > dt * 15 /\ so >= 2 THEN "UK"
    ELSE "UNKNOWN"

\* The float products x * 1.5 and x * 1.2 are compared as the exact 15x/10 and
\* 12x/10: for every count below 200 the rounded product lies on the same side
\* of every integer as the exact one (5 * 1.2 is 6.0, 10 * 1.2 is 12.0).
StyleRule(so, do, st, dt) ==
    IF so * 10 >= do * 15 /\ so >= 4 THEN "UK"
    ELSE IF do * 10 >= so * 12 /\ do >= 4 THEN "US"
    ELSE IF dt * 10 > st * 12 /\ do >= 2 THEN "US"
    ELSE IF st * 10 > dt * 15 /\ so >= 2 THEN "UK"
    ELSE "UNKNOWN"

_detect_primary_style(s) ==
    IF s = <<>> THEN "UNKNOWN"
    ELSE StyleRule(singles_open(s), doubles_open(s),
                   singles_total(s), doubles_total(s))

----------------------------------------------------------------------------
(* normalize_quotes_to_us *)

APOS    == <<"<", "<", "A", "P", "O", "S", ">", ">">>
OPEN_S  == <<"<", "<", "O", "P", "E", "N", "_", "S", ">", ">">>
CLOSE_S == <<"<", "<", "C", "L", "O", "S", "E", "_", "S", ">", ">">>
OPEN_D  == <<"<", "<", "O", "P", "E", "N", "_", "D", ">", ">">>
CLOSE_D == <<"<", "<", "C", "L", "O", "S", "E", "_", "D", ">", ">">>

ElisionWords ==
    << <<"e", "m">>, <<"c", "a", "u", "s", "e">>, <<"t", "i", "l">>,
       <<"t", "i", "s">>, <<"t", "w", "a", "s">>, <<"s", "u", "p">>,
       <<"r", "o", "u", "n", "d">>, <<"c", "l", "o", "c", "k">> >>

\* line 455: re.sub of a curly or straight apostrophe between two \w by APOS
WordInternalApos(s) ==
    Splice(s,
           [i \in 1..Len(s) |->
               s[i] \in {RSQUO, SQ} /\ WordBefore(s, i) /\ WordAt(s, i + 1)],
           1, APOS, 1)

\* lines 459-462: the four curly glyphs to their markers, one replace after another
TagQuotes(s) ==
    Replace(Replace(Replace(Replace(s, <<LSQUO>>, OPEN_S),
                            <<RSQUO>>, CLOSE_S),
                    <<LDQUO>>, OPEN_D),
            <<RDQUO>>, CLOSE_D)

\* line 463: re.sub(r'(?<=\w)' + CLOSE_S + r'(?=\w)', APOS, t)
WordInternalMarker(t) ==
    Splice(t,
           [i \in 1..Len(t) |->
               /\ MatchAt(t, i, CLOSE_S)
               /\ WordBefore(t, i)
               /\ WordAt(t, i + Len(CLOSE_S))],
           Len(CLOSE_S), APOS, 1)

\* line 465: re.sub(r'\b' + CLOSE_S + w + r'\b', APOS + w, t, flags=re.IGNORECASE)
ElisionSub(t, w) ==
    Splice(t,
           [i \in 1..Len(t) |->
               /\ Boundary(t, i)
               /\ MatchAtIC(t, i, CLOSE_S \o w)
               /\ Boundary(t, i + Len(CLOSE_S) + Len(w))],
           Len(CLOSE_S) + Len(w), APOS \o w, 1)

\* lines 464-465: the loop over the elision words, from word k on
RECURSIVE ElisionLoop(_, _)
ElisionLoop(t, k) ==
    IF k > Len(ElisionWords) THEN t
    ELSE ElisionLoop(ElisionSub(t, ElisionWords[k]), k + 1)

\* the decade rule left out
DecadeSub_Skipped(t) == t

\* line 466: re.sub(CLOSE_S + r'(?=\d{2}s\b)', APOS, t)
DecadeSub(t) ==
    Splice(t,
           [i \in 1..Len(t) |->
               LET j == i + Len(CLOSE_S) IN
               /\ MatchAt(t, i, CLOSE_S)
               /\ j + 2 <= Len(t)
               /\ IsDigit(t[j]) /\ IsDigit(t[j + 1]) /\ t[j + 2] = "s"
               /\ Boundary(t, j + 3)],
           Len(CLOSE_S), APOS, 1)

\* the closing single marker given back as RSQUO, the other three swapped
SwapMarkers_ClosingSingleKept(t) ==
    Replace(Replace(Replace(Replace(t, OPEN_S, <<LDQUO>>),
                            CLOSE_S, <<RSQUO>>),
                    OPEN_D, <<LSQUO>>),
            CLOSE_D, <<RSQUO>>)

\* line 467: the markers to the swapped glyphs, one replace after another
SwapMarkers(t) ==
    Replace(Replace(Replace(Replace(t, OPEN_S, <<LDQUO>>),
                            CLOSE_S, <<RDQUO>>),
                    OPEN_D, <<LSQUO>>),
            CLOSE_D, <<RSQUO>>)

\* lines 458-468: the UK branch
UKSwap(s) ==
    SwapMarkers(DecadeSub(ElisionLoop(WordInternalMarker(TagQuotes(s)), 1)))

\* lines 470-479: smarten_line; open_d is a local of each call
RECURSIVE SmartenFrom(_, _, _)
SmartenFrom(line, i, open_d) ==
    IF i > Len(line) THEN <<>>
    ELSE IF line[i] = DQ
         THEN <<IF open_d THEN LDQUO ELSE RDQUO>>
              \o SmartenFrom(line, i + 1, ~open_d)
    ELSE IF line[i] = SQ THEN <<RSQUO>> \o SmartenFrom(line, i + 1, open_d)
    ELSE <<line[i]>> \o SmartenFrom(line, i + 1, open_d)

smarten_line(line) == SmartenFrom(line, 1, TRUE)

\* one scan over the whole text, the line breaks not separating anything
Smarten_WholeString(s) == smarten_line(s)

\* line 480: "\n".join(smarten_line(ln) for ln in text.split("\n"))
Smarten(s) ==
    LET lines == Split(s)
    IN  Join([k \in 1..Len(lines) |-> smarten_line(lines[k])])

\* line 481: text.replace(APOS, RSQUO)
RestoreApos(s) == Replace(s, APOS, <<RSQUO>>)

\* the vote taken on the text as it was passed
StyleOf_RawText(s) == _detect_primary_style(s)

\* line 456: the vote is taken on the text line 455 left
StyleOf(s) == _detect_primary_style(WordInternalApos(s))

\* lines 454-481 for a non-empty str
NormalizeStr(s) ==
    LET t1 == WordInternalApos(s)
    IN  RestoreApos(IF _detect_primary_style(t1) = "UK"
                    THEN UKSwap(t1)
                    ELSE Smarten(t1))

\* the early return giving the empty string for every falsy argument
normalize_quotes_to_us_EmptyForFalsy(v) ==
    IF Falsy(v) THEN PyStr(<<>>) ELSE PyStr(NormalizeStr(v.str))

normalize_quotes_to_us(v) ==
    IF Falsy(v) THEN v ELSE PyStr(NormalizeStr(v.str))

----------------------------------------------------------------------------
(* One call of normalize_quotes_to_us *)

MaxLen == 3

\* The pieces an argument is made of: the six quote characters, a letter, a
\* space, a line break, a decade and an elision word.
Tokens ==
    { <<LSQUO>>, <<RSQUO>>, <<LDQUO>>, <<RDQUO>>, <<SQ>>, <<DQ>>,
      <<"a">>, <<" ">>, <<NL>>, <<"9", "0", "s">>, <<"t", "i", "s">> }

\* The placeholder strings as literal text of the argument, beside quotes, a
\* letter, a space and a contraction.
LiteralTokens ==
    { APOS, OPEN_S, CLOSE_S, OPEN_D, CLOSE_D,
      <<LSQUO>>, <<RSQUO>>, <<SQ>>, <<"a">>, <<" ">>, <<"a", SQ, "a">> }

\* What precedes the pieces: nothing, or two opening single quotes, which
\* carry the vote to UK when nothing outweighs them.
UKLead   == <<LSQUO, " ", LSQUO, " ">>
Leads    == { <<>>, UKLead }

RECURSIVE Flatten(_)
Flatten(ss) == IF Len(ss) = 0 THEN <<>> ELSE ss[1] \o Flatten(Tail(ss))

Bodies(toks) == UNION { [1..n -> toks] : n \in 0..MaxLen }

Texts(toks) == { lead \o Flatten(b) : lead \in Leads, b \in Bodies(toks) }

Args(toks) == {PyNone} \cup { PyStr(s) : s \in Texts(toks) }

InitCall(toks) ==
    /\ text \in Args(toks)
    /\ result = PyNone
    /\ style = ""
    /\ pc = "call"
    /\ calls = <<>>
    /\ doc = <<>>
    /\ doc0 = <<>>

Init == InitCall(Tokens)

InitLiteral == InitCall(LiteralTokens)

\* lines 452-453: `if not text: return text`
ReturnFalsy ==
    /\ pc = "call"
    /\ Falsy(text)
    /\ result' = normalize_quotes_to_us(text)
    /\ pc' = "done"
    /\ UNCHANGED <<text, style, calls, doc, doc0>>

\* lines 454-468 and 481: the call of a text voted UK
NormalizeUK ==
    /\ pc = "call"
    /\ ~Falsy(text)
    /\ StyleOf(text.str) = "UK"
    /\ style' = "UK"
    /\ result' = normalize_quotes_to_us(text)
    /\ pc' = "done"
    /\ UNCHANGED <<text, calls, doc, doc0>>

\* lines 454-456 and 469-481: the call of a text voted US or UNKNOWN
NormalizeSmarten ==
    /\ pc = "call"
    /\ ~Falsy(text)
    /\ StyleOf(text.str) # "UK"
    /\ style' = StyleOf(text.str)
    /\ result' = normalize_quotes_to_us(text)
    /\ pc' = "done"
    /\ UNCHANGED <<text, calls, doc, doc0>>

Next == ReturnFalsy \/ NormalizeUK \/ NormalizeSmarten

Spec == Init /\ [][Next]_vars

SpecLiteral == InitLiteral /\ [][Next]_vars

----------------------------------------------------------------------------
(* Properties of one call *)

Done == pc = "done"
\* the argument and the returned value as character sequences
S == text.str
R == result.str

\* index i of s holds an apostrophe between two word characters
WordInternal(s, i) ==
    s[i] \in {RSQUO, SQ} /\ WordBefore(s, i) /\ WordAt(s, i + 1)

\* index i of s is followed by an elision word and a word boundary
ElisionFollows(s, i) ==
    \E k \in 1..Len(ElisionWords) :
        /\ MatchAtIC(s, i + 1, ElisionWords[k])
        /\ Boundary(s, i + 1 + Len(ElisionWords[k]))

\* index i of s is followed by exactly two digits, s and a word boundary
DecadeFollows(s, i) ==
    /\ i + 3 <= Len(s)
    /\ IsDigit(s[i + 1]) /\ IsDigit(s[i + 2]) /\ s[i + 3] = "s"
    /\ Boundary(s, i + 4)

\* pat occurs somewhere in s
Occurs(s, pat) == \E i \in 1..Len(s) : MatchAt(s, i, pat)

\* The nesting depth after the curly quotes of s from index i on, starting at
\* depth d: 0 outside, 1 inside single quotes, 2 inside double quotes nested in
\* single ones; -1 when a quote breaks UK nesting.
RECURSIVE DepthFrom(_, _, _)
DepthFrom(s, i, d) ==
    IF i > Len(s) \/ d = -1 THEN d
    ELSE IF s[i] = LSQUO THEN DepthFrom(s, i + 1, IF d = 0 THEN 1 ELSE -1)
    ELSE IF s[i] = LDQUO THEN DepthFrom(s, i + 1, IF d = 1 THEN 2 ELSE -1)
    ELSE IF s[i] = RDQUO THEN DepthFrom(s, i + 1, IF d = 2 THEN 1 ELSE -1)
    ELSE IF s[i] = RSQUO THEN DepthFrom(s, i + 1, IF d = 1 THEN 0 ELSE -1)
    ELSE DepthFrom(s, i + 1, d)

\* s holds quotations, all its quotes are curly delimiters, and they nest the
\* UK way: single outermost, double inside.
UKNested(s) ==
    /\ \E i \in 1..Len(s) : s[i] = LSQUO
    /\ \A i \in 1..Len(s) : s[i] # SQ /\ s[i] # DQ
    /\ DepthFrom(s, 1, 0) = 0

\* the glyph the UK-to-US inversion gives for a delimiter
Inverted(c) ==
    CASE c = LSQUO -> LDQUO [] c = RSQUO -> RDQUO
      [] c = LDQUO -> LSQUO [] c = RDQUO -> RSQUO [] OTHER -> c

\* C1: a text whose delimiters follow UK nesting is returned with every
\* delimiter inverted (single to double, double to single), whatever the
\* number of quotations it holds.
C1_PrimaryNestedInversion ==
    (Done /\ ~text.none /\ UKNested(S)) =>
        R = [i \in 1..Len(S) |-> Inverted(S[i])]

\* C2: every curly or straight apostrophe with a word character on both sides
\* is the character RSQUO at that position of the output, whatever the style.
C2_WordInternalApostrophe ==
    (Done /\ ~text.none) =>
        \A i \in 1..Len(S) :
            WordInternal(S, i) => (i <= Len(R) /\ R[i] = RSQUO)

\* C3: in a text voted UK, every RSQUO followed by an elision word and a word
\* boundary is the apostrophe RSQUO in the output, also at the start of the
\* text and after whitespace.
C3_ElisionList ==
    (Done /\ style = "UK") =>
        \A i \in 1..Len(S) :
            (S[i] = RSQUO /\ ElisionFollows(S, i)) =>
                (i <= Len(R) /\ R[i] = RSQUO)

\* C4: the output holds none of the five placeholder strings, also when the
\* input holds their literal text.
C4_NoLeakedMarkers ==
    (Done /\ ~text.none) =>
        \A m \in {APOS, OPEN_S, CLOSE_S, OPEN_D, CLOSE_D} : ~Occurs(R, m)

\* C5: the output has the length of the input and holds, wherever the input
\* holds a character that is not one of the six quote characters, that
\* character.
C5_PassThrough ==
    (Done /\ ~text.none) =>
        /\ Len(R) = Len(S)
        /\ \A i \in 1..Len(S) : S[i] \notin QuoteChars => R[i] = S[i]

\* C6: whatever the argument, balanced or not, the call returns: a str
\* argument gives a str, and the empty string and None are returned as they
\* are.
C6_Totality ==
    Done => /\ Falsy(text) => result = text
            /\ ~text.none => (~result.none /\ R \in Seq(STRING))

C6_NoneReturned == Done /\ text = PyNone /\ result = PyNone

\* C7: an RSQUO followed by exactly two digits, s and a word boundary is the
\* apostrophe RSQUO in the output, in a text voted UK as in one voted US or
\* UNKNOWN.
C7_DecadeElision ==
    (Done /\ ~text.none) =>
        \A i \in 1..Len(S) :
            (S[i] = RSQUO /\ DecadeFollows(S, i)) =>
                (i <= Len(R) /\ R[i] = RSQUO)

\* a text voted UK whose decade apostrophe follows a space was kept
C7_DecadeKeptInUK ==
    /\ Done /\ style = "UK"
    /\ \E i \in 2..Len(S) :
        /\ S[i] = RSQUO /\ S[i - 1] = " " /\ DecadeFollows(S, i)
        /\ i <= Len(R) /\ R[i] = RSQUO

----------------------------------------------------------------------------
(* One call of _detect_primary_style *)

MaxOpens  == 4
MaxCloses == 4

RECURSIVE Rep(_, _)
Rep(piece, n) == IF n = 0 THEN <<>> ELSE piece \o Rep(piece, n - 1)

\* How a voted text starts: with nothing, with a quote at the start of the
\* string, or with a quote after a letter.
VoteHeads ==
    { <<>>, <<LSQUO>>, <<LDQUO>>, <<"a", LSQUO>>, <<"a", LDQUO>> }

\* A head, then a opening single quotes after a space, b opening double quotes
\* after a bracket, c closing single and d closing double quotes.
VoteTexts ==
    { h \o Rep(<<" ", LSQUO>>, a) \o Rep(<<"(", LDQUO>>, b)
        \o Rep(<<RSQUO>>, c) \o Rep(<<RDQUO>>, d) :
        h \in VoteHeads, a \in 0..MaxOpens, b \in 0..MaxOpens,
        c \in 0..MaxCloses, d \in 0..MaxCloses }

InitVote ==
    /\ text \in { PyStr(s) : s \in VoteTexts }
    /\ result = PyNone
    /\ style = ""
    /\ pc = "call"
    /\ calls = <<>>
    /\ doc = <<>>
    /\ doc0 = <<>>

\* lines 434-449
Vote ==
    /\ pc = "call"
    /\ style' = _detect_primary_style(text.str)
    /\ pc' = "done"
    /\ UNCHANGED <<text, result, calls, doc, doc0>>

SpecVote == InitVote /\ [][Vote]_vars

\* The counts as the claim words them: the quotes q preceded by the start of
\* the string, whitespace or an opening bracket, and all the quotes of a kind.
OpensOf(s, q) ==
    Cardinality({ i \in 1..Len(s) :
                    s[i] = q /\ (i = 1 \/ IsOpenContext(s[i - 1])) })
TotalOf(s, qs) == Cardinality({ i \in 1..Len(s) : s[i] \in qs })

FirstUKRule(so, do)      == 2 * so >= 3 * do /\ so >= 4
USRule(so, do, st, dt)   == (5 * do >= 6 * so /\ do >= 4) \/ (5 * dt > 6 * st /\ do >= 2)
SecondUKRule(so, st, dt) == 2 * st > 3 * dt /\ so >= 2

\* C9: the vote is UK by the first UK rule, otherwise US by either US rule,
\* otherwise UK by the secondary rule, otherwise UNKNOWN, the rules tried in
\* this order.
C9_StyleVote ==
    Done =>
        LET so == OpensOf(S, LSQUO)
            do == OpensOf(S, LDQUO)
            st == TotalOf(S, {LSQUO, RSQUO})
            dt == TotalOf(S, {LDQUO, RDQUO})
        IN  style = IF FirstUKRule(so, do) THEN "UK"
                    ELSE IF USRule(so, do, st, dt) THEN "US"
                    ELSE IF SecondUKRule(so, st, dt) THEN "UK"
                    ELSE "UNKNOWN"

\* a text that satisfies the first UK rule and a US rule was voted UK
C9_UKBeforeUS ==
    /\ Done /\ style = "UK"
    /\ FirstUKRule(OpensOf(S, LSQUO), OpensOf(S, LDQUO))
    /\ USRule(OpensOf(S, LSQUO), OpensOf(S, LDQUO),
              TotalOf(S, {LSQUO, RSQUO}), TotalOf(S, {LDQUO, RDQUO}))

\* a text that satisfies a US rule and only the secondary UK rule was voted US
C9_USBeforeSecondUK ==
    /\ Done /\ style = "US"
    /\ ~FirstUKRule(OpensOf(S, LSQUO), OpensOf(S, LDQUO))
    /\ SecondUKRule(OpensOf(S, LSQUO), TotalOf(S, {LSQUO, RSQUO}),
                    TotalOf(S, {LDQUO, RDQUO}))

----------------------------------------------------------------------------
(* Interleaved calls of normalize_quotes_to_us *)

NumCalls == 2
Calls    == 1..NumCalls

\* The arguments of the interleaved calls: a text voted UK with an elision
\* and a decade, a text voted US with straight quotes, and the empty string.
CallArgs ==
    { PyStr(UKLead \o <<RSQUO, "9", "0", "s", " ", "a", RSQUO, "t", "i", "s">>),
      PyStr(<<LDQUO, " ", LDQUO, "a", SQ, "a", DQ>>),
      PyStr(<<>>) }

\* The frame of a call: its argument, its locals text, style and t, the index
\* w of the elision loop, the line it is at and the value it returned.
Frame(arg) ==
    [arg |-> arg, text |-> arg.str, style |-> "", t |-> <<>>, w |-> 1,
     at |-> "452", ret |-> PyNone]

InitCalls ==
    /\ calls \in [Calls -> { Frame(a) : a \in CallArgs }]
    /\ text = PyNone
    /\ result = PyNone
    /\ style = ""
    /\ pc = "calls"
    /\ doc = <<>>
    /\ doc0 = <<>>

\* call c moves to frame f; nothing of any other call changes
Move(c, f) ==
    /\ calls' = [calls EXCEPT ![c] = f]
    /\ UNCHANGED <<text, result, style, pc, doc, doc0>>

\* lines 452-453
Line452(c) ==
    /\ calls[c].at = "452"
    /\ IF Falsy(calls[c].arg)
       THEN Move(c, [calls[c] EXCEPT !.ret = calls[c].arg, !.at = "done"])
       ELSE Move(c, [calls[c] EXCEPT !.at = "455"])

\* line 455
Line455(c) ==
    /\ calls[c].at = "455"
    /\ Move(c, [calls[c] EXCEPT !.text = WordInternalApos(calls[c].text),
                                !.at = "456"])

\* line 456 with the vote kept in a variable all the calls share
Line456_SharedStyle(c) ==
    /\ calls[c].at = "456"
    /\ calls' = [d \in Calls |->
                    IF d = c
                    THEN [calls[c] EXCEPT
                            !.style = _detect_primary_style(calls[c].text),
                            !.at = "457"]
                    ELSE [calls[d] EXCEPT
                            !.style = _detect_primary_style(calls[c].text)]]
    /\ UNCHANGED <<text, result, style, pc, doc, doc0>>

\* line 456
Line456(c) ==
    /\ calls[c].at = "456"
    /\ Move(c, [calls[c] EXCEPT
                    !.style = _detect_primary_style(calls[c].text),
                    !.at = "457"])

\* lines 457 and 469: the branch on the vote
Line457(c) ==
    /\ calls[c].at = "457"
    /\ Move(c, [calls[c] EXCEPT
                    !.at = IF calls[c].style = "UK" THEN "459" ELSE "480"])

\* lines 459-462
Line459(c) ==
    /\ calls[c].at = "459"
    /\ Move(c, [calls[c] EXCEPT !.t = TagQuotes(calls[c].text), !.at = "463"])

\* line 463
Line463(c) ==
    /\ calls[c].at = "463"
    /\ Move(c, [calls[c] EXCEPT !.t = WordInternalMarker(calls[c].t),
                                !.w = 1, !.at = "464"])

\* lines 464-465: one turn of the loop, or its end
Line464(c) ==
    /\ calls[c].at = "464"
    /\ IF calls[c].w <= Len(ElisionWords)
       THEN Move(c, [calls[c] EXCEPT
                        !.t = ElisionSub(calls[c].t, ElisionWords[calls[c].w]),
                        !.w = calls[c].w + 1])
       ELSE Move(c, [calls[c] EXCEPT !.at = "466"])

\* line 466
Line466(c) ==
    /\ calls[c].at = "466"
    /\ Move(c, [calls[c] EXCEPT !.t = DecadeSub(calls[c].t), !.at = "467"])

\* lines 467-468
Line467(c) ==
    /\ calls[c].at = "467"
    /\ Move(c, [calls[c] EXCEPT !.t = SwapMarkers(calls[c].t),
                                !.text = SwapMarkers(calls[c].t),
                                !.at = "481"])

\* line 480
Line480(c) ==
    /\ calls[c].at = "480"
    /\ Move(c, [calls[c] EXCEPT !.text = Smarten(calls[c].text), !.at = "481"])

\* line 481
Line481(c) ==
    /\ calls[c].at = "481"
    /\ Move(c, [calls[c] EXCEPT !.ret = PyStr(RestoreApos(calls[c].text)),
                                !.at = "done"])

NextCalls ==
    \E c \in Calls :
        \/ Line452(c) \/ Line455(c) \/ Line456(c) \/ Line457(c)
        \/ Line459(c) \/ Line463(c) \/ Line464(c) \/ Line466(c)
        \/ Line467(c) \/ Line480(c) \/ Line481(c)

SpecCalls == InitCalls /\ [][NextCalls]_vars

\* C8: in every interleaving each call returns what it returns when it runs
\* alone, and two calls of the same argument return equal values.
C8_ReferentialTransparency ==
    /\ \A c \in Calls :
          calls[c].at = "done" =>
              calls[c].ret = normalize_quotes_to_us(calls[c].arg)
    /\ \A c, d \in Calls :
          (calls[c].at = "done" /\ calls[d].at = "done"
             /\ calls[c].arg = calls[d].arg) => calls[c].ret = calls[d].ret

\* a call of a text voted US returned while a call of a text voted UK, which
\* had taken its vote, was in its UK branch
C8_ReturnedBesideUKCall ==
    \E c, d \in Calls :
        /\ c # d
        /\ calls[c].at = "done" /\ calls[c].style = "US"
        /\ calls[d].at = "464" /\ calls[d].style = "UK"

----------------------------------------------------------------------------
(* sanitize_for_docx *)

\* ord(ch); every character without a line of its own is printable ASCII
CodePoint(c) ==
    CASE c = "\t" -> 9      [] c = NL -> 10       [] c = "\r" -> 13
      [] c = BEL -> 7       [] c = " " -> 32      [] c = DQ -> 34
      [] c = SQ -> 39       [] c = "<" -> 60      [] c = ">" -> 62
      [] c = LSQUO -> 8216  [] c = RSQUO -> 8217
      [] c = LDQUO -> 8220  [] c = RDQUO -> 8221
      [] c = SURR -> 55296  [] c = REPL -> 65533  [] c = NONCHAR -> 65534
      [] OTHER -> 97

\* line 404: the class [\x00-\x08\x0B\x0C\x0E-\x1F\x7F]
IsAsciiCtrl(c) ==
    LET code == CodePoint(c)
    IN  \/ code <= 8
        \/ code = 11 \/ code = 12
        \/ (14 <= code /\ code <= 31)
        \/ code = 127

\* lines 406-415
RECURSIVE _drop_nonchars(_)
_drop_nonchars(s) ==
    IF Len(s) = 0 THEN <<>>
    ELSE LET code == CodePoint(Head(s))
         IN  IF (64976 <= code /\ code <= 65007)
                \/ (code % 65536) \div 2 = 32767
             THEN _drop_nonchars(Tail(s))
             ELSE IF 55296 <= code /\ code <= 57343
             THEN <<REPL>> \o _drop_nonchars(Tail(s))
             ELSE <<Head(s)>> \o _drop_nonchars(Tail(s))

\* lines 417-425
_xml10_filter(s) ==
    IF s = <<>> THEN s
    ELSE SelectSeq(s, LAMBDA c :
            LET code == CodePoint(c)
            IN  \/ code \in {9, 10, 13}
                \/ (32 <= code /\ code <= 55295)
                \/ (57344 <= code /\ code <= 65533)
                \/ (65536 <= code /\ code <= 1114111))

\* lines 427-432
sanitize_for_docx(s) ==
    IF s = <<>> THEN s
    ELSE _xml10_filter(_drop_nonchars(SelectSeq(s, LAMBDA c : ~IsAsciiCtrl(c))))

----------------------------------------------------------------------------
(* convert_docx_runs_to_us *)

MaxRuns == 2

\* The run texts of the documents: a text voted UK with a straight quote, a
\* text voted US, a contraction with a control character, a lone surrogate
\* and the empty run.
RunTexts ==
    { UKLead \o <<DQ>>,
      <<LDQUO, " ", LDQUO, "a", RDQUO>>,
      <<"a", SQ, "a", BEL>>,
      <<SURR, NONCHAR>>,
      <<>> }

\* A paragraph is the sequence of its runs' texts.
Paragraphs == UNION { [1..n -> RunTexts] : n \in 1..MaxRuns }

\* A document: doc.paragraphs, and one table of one row over two grid
\* columns.  row.cells is a sequence of references to cell objects, and cells
\* holds each object's paragraphs: python-docx lists a horizontally merged
\* cell once for every grid column it spans, so that the row of a merged cell
\* is <<1, 1>> and the row of two cells is <<1, 2>>.
Docs ==
    { [paragraphs |-> <<p>>,
       tables |-> << <<row>> >>,
       cells |-> [id \in { row[k] : k \in 1..Len(row) } |-> << <<runs[id]>> >>]] :
        p \in Paragraphs,
        row \in { <<1, 2>>, <<1, 1>> },
        runs \in [1..2 -> RunTexts] }

InitDoc ==
    /\ doc \in Docs
    /\ doc0 = doc
    /\ pc = "convert"
    /\ text = PyNone
    /\ result = PyNone
    /\ style = ""
    /\ calls = <<>>

\* lines 486 and 492: r.text = normalize_quotes_to_us(sanitize_for_docx(r.text))
ConvertRun(t) == normalize_quotes_to_us(PyStr(sanitize_for_docx(t))).str

\* lines 485-486 and 491-492: the runs of one paragraph
ConvertParagraph(p) == [r \in 1..Len(p) |-> ConvertRun(p[r])]

\* lines 484-486
ConvertBody(ps) == [k \in 1..Len(ps) |-> ConvertParagraph(ps[k])]

\* lines 487-489: the cell references in the order the loops visit them
RECURSIVE CellVisits(_)
CellVisits(rows) ==
    IF Len(rows) = 0 THEN <<>> ELSE Head(rows) \o CellVisits(Tail(rows))

\* lines 489-492: the visits, one after another, each rewriting the runs of
\* the cell object it refers to
RECURSIVE ConvertCells(_, _)
ConvertCells(cells, visits) ==
    IF Len(visits) = 0 THEN cells
    ELSE ConvertCells(
            [cells EXCEPT ![Head(visits)] = ConvertBody(cells[Head(visits)])],
            Tail(visits))

\* lines 483-492
convert_docx_runs_to_us(d) ==
    [d EXCEPT !.paragraphs = ConvertBody(d.paragraphs),
              !.cells = ConvertCells(d.cells, CellVisits(Flatten(d.tables)))]

Convert ==
    /\ pc = "convert"
    /\ doc' = convert_docx_runs_to_us(doc)
    /\ pc' = "converted"
    /\ UNCHANGED <<doc0, text, result, style, calls>>

SpecDoc == InitDoc /\ [][Convert]_vars

\* C10: after the conversion every run of every body paragraph and of every
\* paragraph of every table cell holds the normalized, sanitized text it held
\* before, and the paragraphs, tables, rows, cells and runs are those of
\* before, in their order.
C10_EverySpanNormalized ==
    pc = "converted" =>
        /\ Len(doc.paragraphs) = Len(doc0.paragraphs)
        /\ \A p \in 1..Len(doc0.paragraphs) :
              /\ Len(doc.paragraphs[p]) = Len(doc0.paragraphs[p])
              /\ \A r \in 1..Len(doc0.paragraphs[p]) :
                    doc.paragraphs[p][r] = ConvertRun(doc0.paragraphs[p][r])
        /\ doc.tables = doc0.tables
        /\ DOMAIN doc.cells = DOMAIN doc0.cells
        /\ \A id \in DOMAIN doc0.cells :
              /\ Len(doc.cells[id]) = Len(doc0.cells[id])
              /\ \A p \in 1..Len(doc0.cells[id]) :
                    /\ Len(doc.cells[id][p]) = Len(doc0.cells[id][p])
                    /\ \A r \in 1..Len(doc0.cells[id][p]) :
                          doc.cells[id][p][r] = ConvertRun(doc0.cells[id][p][r])

----------------------------------------------------------------------------
(* Properties of the two branches *)

\* index i of s holds an RSQUO the claim's apostrophe rules leave a delimiter:
\* not between word characters, not before an elision word, not before a
\* decade
ClosingDelimiter(s, i) ==
    /\ s[i] = RSQUO
    /\ ~WordInternal(s, i)
    /\ ~ElisionFollows(s, i)
    /\ ~DecadeFollows(s, i)

\* C11: in a text voted UK the output holds LDQUO at every position where the
\* input holds LSQUO, LSQUO where it holds LDQUO, RSQUO where it holds RDQUO,
\* and RDQUO where it holds an RSQUO that is no apostrophe; no glyph is
\* swapped twice.
C11_UKSwap ==
    (Done /\ style = "UK") =>
        \A i \in 1..Len(S) :
            /\ S[i] \in CurlyQuotes => i <= Len(R)
            /\ S[i] = LSQUO => R[i] = LDQUO
            /\ S[i] = LDQUO => R[i] = LSQUO
            /\ S[i] = RDQUO => R[i] = RSQUO
            /\ ClosingDelimiter(S, i) => R[i] = RDQUO

\* the number of straight double quotes of s at the indices a..b
DoubleQuotesIn(s, a, b) == Cardinality({j \in a..b : s[j] = DQ})

\* the index where the line of index i of s starts
LineStart(s, i) ==
    CHOOSE a \in 1..i :
        /\ a = 1 \/ s[a - 1] = NL
        /\ \A j \in a..(i - 1) : s[j] # NL

\* the glyph of the n-th straight double quote of an alternation
Alternate(n) == IF n % 2 = 1 THEN LDQUO ELSE RDQUO

\* The statement as the specification has it: in a text voted US or UNKNOWN
\* the straight double quotes are numbered over the whole text, across line
\* breaks, and the odd ones are output as LDQUO, the even ones as RDQUO.
C12_WholeStringAlternation ==
    (Done /\ ~text.none /\ style # "UK") =>
        \A i \in 1..Len(S) :
            S[i] = DQ =>
                (i <= Len(R) /\ R[i] = Alternate(DoubleQuotesIn(S, 1, i)))

\* s with every straight double quote replaced by the glyph of its number
\* within its line
AlternatedPerLine(s) ==
    [i \in 1..Len(s) |->
        IF s[i] = DQ
        THEN Alternate(DoubleQuotesIn(s, LineStart(s, i), i))
        ELSE s[i]]

IsDoubleOrBreak(c) == c \in {DQ, LDQUO, RDQUO, NL}

\* the double quotes, straight and curly, and the line breaks of s, in order
DoublesAndBreaks(s) == SelectSeq(s, IsDoubleOrBreak)

\* C12: in a text voted US or UNKNOWN the straight double quotes are numbered
\* from 1 within each line, and the odd ones of a line are output as LDQUO,
\* the even ones as RDQUO: the alternation starts again with opening after
\* every line break, and the curly double quotes and the line breaks stay
\* where they are among them.
C12_PerLineAlternation ==
    (Done /\ ~text.none /\ style # "UK") =>
        DoublesAndBreaks(R) = DoublesAndBreaks(AlternatedPerLine(S))

\* a text voted US or UNKNOWN was returned whose second straight double quote
\* is the first of its line and was output as an opening one
C12_RestartedAfterLineBreak ==
    /\ Done /\ ~text.none /\ style # "UK"
    /\ \E i \in 1..Len(S) :
        /\ S[i] = DQ
        /\ DoubleQuotesIn(S, 1, i) = 2
        /\ DoubleQuotesIn(S, LineStart(S, i), i) = 1
        /\ i <= Len(R) /\ R[i] = LDQUO

\* C13: in a text voted US or UNKNOWN every straight single quote is RSQUO at
\* its position of the output, every curly quote is the same character at the
\* same position, the output holds no straight quote, and a text without
\* straight quotes is returned unchanged.
C13_SmartenKeepsCurly ==
    (Done /\ ~text.none /\ style # "UK") =>
        /\ \A i \in 1..Len(S) :
              /\ S[i] = SQ => (i <= Len(R) /\ R[i] = RSQUO)
              /\ S[i] \in CurlyQuotes => (i <= Len(R) /\ R[i] = S[i])
        /\ \A j \in 1..Len(R) : R[j] \notin {SQ, DQ}
        /\ (\A i \in 1..Len(S) : S[i] \notin {SQ, DQ}) => R = S

\* index i of s holds a straight single quote that, coerced to RSQUO, the
\* apostrophe rules leave a delimiter
StraightDelimiter(s, i) ==
    /\ s[i] = SQ
    /\ ~WordInternal(s, i)
    /\ ~ElisionFollows(s, i)
    /\ ~DecadeFollows(s, i)

\* C14: in a text voted UK every straight quote is coerced to its closing
\* curly glyph and swapped with the curly ones: a straight double quote is
\* output as RSQUO, a straight single quote that is no apostrophe as RDQUO,
\* and the output holds no straight quote.
C14_StraightCoercedInUK ==
    (Done /\ style = "UK") =>
        /\ \A j \in 1..Len(R) : R[j] \notin {SQ, DQ}
        /\ \A i \in 1..Len(S) :
              /\ S[i] = DQ => (i <= Len(R) /\ R[i] = RSQUO)
              /\ StraightDelimiter(S, i) => (i <= Len(R) /\ R[i] = RDQUO)

----------------------------------------------------------------------------
(* The text the vote is taken on *)

MaxSingles      == 2
MaxDoubles      == 2
MaxContractions == 1

\* Texts whose counts decide the branch: a opening single quotes, k
\* contractions with a curly or a straight apostrophe, b opening double
\* quotes, c closing single and d closing double quotes.
BranchTexts ==
    { Rep(<<LSQUO, " ">>, a) \o Rep(<<"a", q, "a", " ">>, k)
        \o Rep(<<LDQUO, " ">>, b) \o Rep(<<RSQUO>>, c) \o Rep(<<RDQUO>>, d) :
        a \in 0..MaxSingles, k \in 0..MaxContractions, q \in {RSQUO, SQ},
        b \in 0..MaxDoubles, c \in 0..MaxSingles, d \in 0..MaxDoubles }

InitBranch ==
    /\ text \in { PyStr(s) : s \in BranchTexts }
    /\ result = PyNone
    /\ style = ""
    /\ pc = "call"
    /\ calls = <<>>
    /\ doc = <<>>
    /\ doc0 = <<>>

SpecBranch == InitBranch /\ [][Next]_vars

\* the vote the rules give for the four counts
VoteOf(so, do, st, dt) ==
    IF FirstUKRule(so, do) THEN "UK"
    ELSE IF USRule(so, do, st, dt) THEN "US"
    ELSE IF SecondUKRule(so, st, dt) THEN "UK"
    ELSE "UNKNOWN"

\* the RSQUO of s that stand between two word characters
WordInternalCurly(s) ==
    Cardinality({ i \in 1..Len(s) : s[i] = RSQUO /\ WordInternal(s, i) })

\* the vote on counts over the complete text, every RSQUO in the single total
VoteOnInput(s) ==
    VoteOf(OpensOf(s, LSQUO), OpensOf(s, LDQUO),
           TotalOf(s, {LSQUO, RSQUO}), TotalOf(s, {LDQUO, RDQUO}))

\* the vote on the counts with the word-internal RSQUO left out of the single
\* total
VoteWithoutApostrophes(s) ==
    VoteOf(OpensOf(s, LSQUO), OpensOf(s, LDQUO),
           TotalOf(s, {LSQUO, RSQUO}) - WordInternalCurly(s),
           TotalOf(s, {LDQUO, RDQUO}))

\* The statement as the specification has it: the branch taken is the one the
\* rules give for the counts over the complete input, the word-internal
\* apostrophes counted in the single total.
C15_VoteOverInput ==
    (Done /\ ~Falsy(text)) =>
        ((style = "UK") <=> (VoteOnInput(S) = "UK"))

\* C15: the branch taken is the one the rules give for the counts over the
\* input with the RSQUO between two word characters left out of the single
\* total; the opening counts and the double total are those of the complete
\* input.
C15_VoteAfterApostropheTagging ==
    (Done /\ ~Falsy(text)) => style = VoteWithoutApostrophes(S)

\* a text whose counts over the complete input give UK was smartened, its
\* contractions not counted
C15_ContractionsTurnedTheVote ==
    /\ Done /\ ~Falsy(text)
    /\ VoteOnInput(S) = "UK"
    /\ style = "UNKNOWN"
    /\ WordInternalCurly(S) > 0
    /\ R = S

----------------------------------------------------------------------------
(* The call applied to its own result *)

\* s holds no straight quote, no < or >, and no RSQUO followed by two digits
\* and s
CurlyOnly(s) ==
    /\ \A i \in 1..Len(s) : s[i] \notin {SQ, DQ, "<", ">"}
    /\ ~\E i \in 1..Len(s) :
          /\ s[i] = RSQUO
          /\ i + 3 <= Len(s)
          /\ IsDigit(s[i + 1]) /\ IsDigit(s[i + 2]) /\ s[i + 3] = "s"

\* C16: for an input with no straight quote, no < or > and no RSQUO followed by
\* two digits and s, the call applied to the returned value returns that
\* value; the result of the UK swap is never voted UK itself.
C16_SecondApplicationNoOp ==
    (Done /\ ~text.none /\ CurlyOnly(S)) =>
        /\ normalize_quotes_to_us(result) = result
        /\ style = "UK" => StyleOf(R) # "UK"

\* a text with two opening double quotes was voted UK and swapped, and the
\* swapped text is returned as it is by the second call
C16_SwappedOnce ==
    /\ Done /\ style = "UK" /\ CurlyOnly(S)
    /\ OpensOf(S, LDQUO) >= 2
    /\ R # S
    /\ StyleOf(R) = "US"
    /\ normalize_quotes_to_us(result) = result

====
